---------------------------- MODULE Spec2Model ----------------------------
(***************************************************************************)
(* Recommendation scoring and evaluation engine of streamlit_app.py:       *)
(* calculate_score (Scorer), get_recommendations (Recommender) and         *)
(* calculate_metrics (Evaluator), over pandas frames modelled as sequences *)
(* of rows.                                                                *)
(*                                                                         *)
(* Numbers.  Prices and budgets are integers (rupees).  A rating r is held *)
(* as the integer 10*r (one decimal, 0..50).  np.log1p is held in          *)
(* thousandths (Log1pMilli).  A score is the exact rational num/den of the *)
(* expression of calculate_score; floating-point rounding is not modelled. *)
(***************************************************************************)
EXTENDS Integers, Sequences, FiniteSets, TLC

VARIABLES
    df_survey,     \* the caller's cohort frame: a sequence of rows (functions of column names)
    df_products,   \* the caller's catalog frame: a sequence of product rows
    survey_in,     \* the cohort as it was handed over (never assigned after Init)
    products_in,   \* the catalog as it was handed over (never assigned after Init)
    scoreCalls,    \* the most recent calls of calculate_score, newest last
    recCall,       \* the most recent call of get_recommendations, or NoCall; `again` says
                   \* that the call before it had the same arguments, and `before` is
                   \* what that call returned
    metricsCalls   \* the reports returned by the calls of calculate_metrics, newest last

vars == <<df_survey, df_products, survey_in, products_in, scoreCalls, recCall, metricsCalls>>

NoCall == [called |-> FALSE]

-----------------------------------------------------------------------------
(* Bounds of the model *)

\* longest catalog of the Recommender's specification
MaxCatalog == 3
\* largest top_n handed to get_recommendations (the smallest is -1)
MaxTopN == 3
\* longest freely chosen part of a cohort
MaxCohort == 2

-----------------------------------------------------------------------------
(* Small helpers *)

Abs(x) == IF x < 0 THEN -x ELSE x

Min(a, b) == IF a <= b THEN a ELSE b

Max(a, b) == IF a >= b THEN a ELSE b

RECURSIVE SumSeq(_)
SumSeq(s) == IF s = <<>> THEN 0 ELSE Head(s) + SumSeq(Tail(s))

\* a frame built row by row, held as a plain sequence (so that each row is computed once)
Rows(f) == SubSeq(f, 1, Len(f))

\* the injective sequences over S of length at most n
InjSeqs(S, n) ==
    UNION { { s \in [1..k -> S] : \A i, j \in 1..k : i # j => s[i] # s[j] } : k \in 0..n }

\* the sequences over S of length at most n
SeqsUpTo(S, n) == UNION { [1..k -> S] : k \in 0..n }

-----------------------------------------------------------------------------
(* Scorer *)

\* np.log1p(c) in thousandths, rounded to nearest, for the review counts used
Log1pMilli(c) ==
    CASE c = 0   -> 0
      [] c = 1   -> 693
      [] c = 50  -> 3932
      [] c = 100 -> 4615
      [] c = 200 -> 5303

\* rating * np.log1p(rating_count), in units of 1/10000 (rating is in tenths)
Popularity(rating, rating_count) == rating * Log1pMilli(rating_count)

\* calculate_score, mutated: the division by 2 is lost, mid_price = low + high
calculate_score_nohalf(price, rating, rating_count, user_price_low, user_price_high) ==
    LET s == user_price_low + user_price_high
    IN  IF s > 0
        THEN [num |-> Popularity(rating, rating_count) * s - 20000 * Abs(price - s),
              den |-> 10000 * s]
        ELSE [num |-> Popularity(rating, rating_count), den |-> 10000]

\* calculate_score, mutated: the review count is left out of the popularity term
calculate_score_nocount(price, rating, rating_count, user_price_low, user_price_high) ==
    LET s == user_price_low + user_price_high
    IN  IF s > 0
        THEN [num |-> rating * 1000 * s - 20000 * Abs(2 * price - s),
              den |-> 10000 * s]
        ELSE [num |-> rating * 1000, den |-> 10000]

\* calculate_score, mutated: the guard mid_price > 0 is lost, the distance is always
\* divided by mid_price
calculate_score_noguard(price, rating, rating_count, user_price_low, user_price_high) ==
    LET s == user_price_low + user_price_high
    IN  [num |-> Popularity(rating, rating_count) * s - 20000 * Abs(2 * price - s),
         den |-> 10000 * s]

\* calculate_score: with s = low + high (so mid_price = s/2),
\*   price_distance = |price - s/2| / (s/2) = |2*price - s| / s   if mid_price > 0, else 0
\*   score = rating*log1p(rating_count) - 2*price_distance
\* as the exact fraction num/den, den > 0.
calculate_score(price, rating, rating_count, user_price_low, user_price_high) ==
    LET s == user_price_low + user_price_high
    IN  IF s > 0
        THEN [num |-> Popularity(rating, rating_count) * s - 20000 * Abs(2 * price - s),
              den |-> 10000 * s]
        ELSE [num |-> Popularity(rating, rating_count), den |-> 10000]

\* a < b, a <= b on scores (fractions with positive denominators)
ScoreLt(a, b) == IF a.den = b.den THEN a.num < b.num ELSE a.num * b.den < b.num * a.den

ScoreLe(a, b) == IF a.den = b.den THEN a.num <= b.num ELSE a.num * b.den <= b.num * a.den

-----------------------------------------------------------------------------
(* Text: a string is a sequence of one-character strings *)

\* str.lower() on one character, for the capitals that occur
LowerChar(ch) ==
    CASE ch = "P" -> "p"
      [] ch = "L" -> "l"
      [] ch = "T" -> "t"
      [] ch = "C" -> "c"
      [] ch = "S" -> "s"
      [] ch = "X" -> "x"
      [] ch = "Y" -> "y"
      [] ch = "Z" -> "z"
      [] OTHER    -> ch

\* str.lower()
Lower(str) == [i \in 1..Len(str) |-> LowerChar(str[i])]

\* Python's `sub in str` (the empty string is in every string)
Contains(sub, str) ==
    \E k \in 0..(Len(str) - Len(sub)) :
        \A i \in 1..Len(sub) : str[k + i] = sub[i]

-----------------------------------------------------------------------------
(* The records the engine is exercised on *)

PhoneX  == [title |-> <<"P","h","o","n","e"," ","X">>, price |-> 1000,
            rating |-> 45, rating_count |-> 100]
LaptopY == [title |-> <<"L","a","p","t","o","p"," ","Y">>, price |-> 50000,
            rating |-> 47, rating_count |-> 200]
PhoneZ  == [title |-> <<"P","h","o","n","e"," ","Z">>, price |-> 1000,
            rating |-> 45, rating_count |-> 100]
Charger == [title |-> <<"C","h","a","r","g","e","r">>, price |-> 720,
            rating |-> 40, rating_count |-> 1]
Tablet  == [title |-> <<"T","a","b","l","e","t">>, price |-> 1321,
            rating |-> 50, rating_count |-> 200]
Speaker == [title |-> <<"S","p","e","a","k","e","r">>, price |-> 0,
            rating |-> 0, rating_count |-> 50]

Products == {PhoneX, LaptopY, PhoneZ, Charger, Tablet, Speaker}

\* pd.DataFrame(products_data): the rows in order under the default RangeIndex
Frame(rows) == [i \in 1..Len(rows) |-> rows[i] @@ [index |-> i - 1]]

Catalogs == { Frame(s) : s \in InjSeqs(Products, MaxCatalog) }

cPhone == [preferred_category |-> "electronics", expected_price_low |-> 900,
           expected_price_high |-> 1100, favorite_keyword |-> <<"p","h","o","n","e">>]
cWide  == [preferred_category |-> "electronics", expected_price_low |-> 500,
           expected_price_high |-> 1500, favorite_keyword |-> <<"T","a","b","l","e","t">>]
cNone  == [preferred_category |-> "electronics", expected_price_low |-> 100,
           expected_price_high |-> 200, favorite_keyword |-> <<"c","h","a","r","g","e","r">>]
cZero  == [preferred_category |-> "fashion", expected_price_low |-> 0,
           expected_price_high |-> 0, favorite_keyword |-> <<"l","a","p","t","o","p">>]

Customers == {cPhone, cWide, cNone, cZero}

\* a row whose budget has a negative midpoint, which only a direct call of
\* get_recommendations is exercised on
cNegative == [preferred_category |-> "electronics", expected_price_low |-> -200,
              expected_price_high |-> 100, favorite_keyword |-> <<"s","p","e","a","k","e","r">>]

TopNs == -1..MaxTopN

-----------------------------------------------------------------------------
(* Recommender *)

\* buffer = 0.2, in percent
buffer == 20

\* InWindow, mutated: the buffer is lost, the mask is taken on the budget itself
InWindow_unbuffered(user_row, row) ==
    /\ row.price >= user_row.expected_price_low
    /\ row.price <= user_row.expected_price_high

\* df_products['price'] >= price_low and <= price_high, where
\* price_low = low * (1 - buffer) and price_high = high * (1 + buffer)
InWindow(user_row, row) ==
    /\ row.price * 100 >= user_row.expected_price_low * (100 - buffer)
    /\ row.price * 100 <= user_row.expected_price_high * (100 + buffer)

\* the boolean-mask selection df[mask]: the rows kept in order, index labels kept
Filtered(user_row, df) == SelectSeq(df, LAMBDA row : InWindow(user_row, row))

\* candidate_pool, mutated: the fallback to the whole catalog is lost
candidate_pool_nofallback(user_row, df) == Filtered(user_row, df)

\* candidate_pool, mutated: no price filter, the pool is always the whole catalog
candidate_pool_nofilter(user_row, df) == df

\* lines 165-175: the filtered copy, or a copy of the whole frame when that is empty
candidate_pool(user_row, df) ==
    LET candidates == Filtered(user_row, df)
    IN  IF Len(candidates) = 0 THEN df ELSE candidates

\* lines 177-183: candidates['score'] = candidates.apply(calculate_score(...), axis=1)
with_scores(user_row, candidates) ==
    Rows([i \in 1..Len(candidates) |->
            candidates[i] @@
            [score |-> calculate_score(candidates[i].price, candidates[i].rating,
                                       candidates[i].rating_count,
                                       user_row.expected_price_low,
                                       user_row.expected_price_high)]])

\* the place of row j in descending score, rows of equal score in frame order under
\* keep = "first" and in reverse frame order under keep = "last" (the stable mergesort
\* of the negated scores that nlargest takes its rows from)
Rank(frame, j, keep) ==
    1 + Cardinality({ k \in 1..Len(frame) :
            \/ ScoreLt(frame[j].score, frame[k].score)
            \/ /\ frame[k].score = frame[j].score
               /\ IF keep = "first" THEN k < j ELSE k > j })

\* the rows of frame in the order Rank gives, cut to the first n (none when n <= 0)
Ranked(n, frame, keep) ==
    Rows([r \in 1..Min(Max(n, 0), Len(frame)) |->
            frame[CHOOSE j \in 1..Len(frame) : Rank(frame, j, keep) = r]])

\* nlargest, mutated: keep='last', rows of equal score come out latest first
nlargest_keeplast(n, frame) == Ranked(n, frame, "last")

\* nlargest, mutated: keep='all', every row that ties with the n-th is returned too
nlargest_keepall(n, frame) ==
    IF n <= 0
    THEN <<>>
    ELSE SelectSeq(Ranked(Len(frame), frame, "first"), LAMBDA row :
            Cardinality({ k \in 1..Len(frame) : ScoreLt(row.score, frame[k].score) }) < n)

\* nlargest, mutated: sort_values('score', ascending=False).head(n), where a
\* negative n drops the last -n rows instead of selecting nothing
nlargest_head(n, frame) ==
    Ranked(IF n < 0 THEN Len(frame) + n ELSE n, frame, "first")

\* DataFrame.nlargest(n, 'score') with keep='first': n <= 0 selects nothing; otherwise
\* the n rows of largest score, in descending score, equal scores in frame order
nlargest(n, frame) == Ranked(n, frame, "first")

\* get_recommendations(user_row, df_products, top_n): the frame it returns
get_recommendations(user_row, df, top_n) ==
    IF Len(df) = 0
    THEN <<>>
    ELSE LET candidates == with_scores(user_row, candidate_pool(user_row, df))
         IN  nlargest(Min(top_n, Len(candidates)), candidates)

\* products_after_get_recommendations, mutated: the price filter drops the rows
\* from the caller's frame (an in-place drop instead of a filtered copy)
products_after_inplace_filter(user_row, df) == Filtered(user_row, df)

\* products_after_get_recommendations, mutated: the fallback takes the caller's
\* frame itself (no .copy()), so the score column lands in the caller's frame
products_after_nocopy(user_row, df) ==
    IF Len(df) # 0 /\ Len(Filtered(user_row, df)) = 0 THEN with_scores(user_row, df) ELSE df

\* the caller's catalog after get_recommendations: candidates is a copy (.copy() at
\* lines 172 and 175), the score column is assigned to the copy, nlargest returns a
\* new frame; the caller's frame is what it was
products_after_get_recommendations(user_row, df) == df

\* one call of get_recommendations on the caller's catalog
GetRecommendationsCall(user_row, top_n) ==
    /\ recCall' = [called   |-> TRUE,
                   user_row |-> user_row,
                   top_n    |-> top_n,
                   recs     |-> get_recommendations(user_row, df_products, top_n),
                   again    |-> /\ recCall.called
                                /\ recCall.user_row = user_row
                                /\ recCall.top_n = top_n,
                   before   |-> IF /\ recCall.called
                                   /\ recCall.user_row = user_row
                                   /\ recCall.top_n = top_n
                                THEN recCall.recs
                                ELSE <<>>]
    /\ df_products' = products_after_get_recommendations(user_row, df_products)
    /\ UNCHANGED <<df_survey, survey_in, products_in, scoreCalls, metricsCalls>>

-----------------------------------------------------------------------------
(* Scorer, exercised on its own *)

Prices == {720, 1000, 1321, 50000}
Ratings == {0, 45}
RatingCounts == {0, 100, 200}
Budgets == { <<c.expected_price_low, c.expected_price_high>> : c \in Customers }

\* one call of calculate_score; the two most recent calls are remembered
CalculateScoreCall(price, rating, rating_count, low, high) ==
    /\ scoreCalls' =
          (IF scoreCalls = <<>> THEN <<>> ELSE <<scoreCalls[Len(scoreCalls)]>>) \o
          << [price |-> price, rating |-> rating, rating_count |-> rating_count,
              low |-> low, high |-> high,
              score |-> calculate_score(price, rating, rating_count, low, high)] >>
    /\ UNCHANGED <<df_survey, df_products, survey_in, products_in, recCall, metricsCalls>>

InitScorer ==
    /\ df_survey = <<>>
    /\ df_products = <<>>
    /\ survey_in = <<>>
    /\ products_in = <<>>
    /\ scoreCalls = <<>>
    /\ recCall = NoCall
    /\ metricsCalls = <<>>

NextScorer ==
    \E price \in Prices, rating \in Ratings, rating_count \in RatingCounts, b \in Budgets :
        CalculateScoreCall(price, rating, rating_count, b[1], b[2])

SpecScorer == InitScorer /\ [][NextScorer]_vars

-----------------------------------------------------------------------------
(* Recommender, exercised on its own *)

InitRecommender ==
    /\ df_products \in Catalogs
    /\ products_in = df_products
    /\ df_survey = <<>>
    /\ survey_in = <<>>
    /\ scoreCalls = <<>>
    /\ recCall = NoCall
    /\ metricsCalls = <<>>

NextRecommender ==
    \E user_row \in Customers \cup {cNegative}, top_n \in TopNs :
        GetRecommendationsCall(user_row, top_n)

SpecRecommender == InitRecommender /\ [][NextRecommender]_vars

-----------------------------------------------------------------------------
(* Evaluator *)

\* df_survey.head(50)
SampleSize == 50
\* get_recommendations(user, df_products, 3) and min(3, len(recs))
EvalTopN == 3
\* get_recommendations(user_data, df_products, 5) of the recommendations page
PageTopN == 5

\* a metric is a fraction num/den (den > 0), or NaN (the mean of an empty column)
NaN == [nan |-> TRUE]

Zero == [num |-> 0, den |-> 1]

\* check_price_match, mutated: the match is taken against the relaxed window of
\* get_recommendations instead of the customer's own budget
check_price_match_buffered(row, products) ==
    \E i \in 1..Len(products) : InWindow(row, products[i])

\* check_price_match(row): some product is priced within the customer's own budget
check_price_match(row, products) ==
    \E i \in 1..Len(products) :
        /\ products[i].price >= row.expected_price_low
        /\ products[i].price <= row.expected_price_high

\* df_survey['price_match'] = df_survey.apply(check_price_match, axis=1): the column
\* is written into the caller's frame (added, or overwritten when it is there)
survey_after_calculate_metrics(survey, products) ==
    Rows([i \in 1..Len(survey) |->
            [price_match |-> check_price_match(survey[i], products)] @@
            [c \in DOMAIN survey[i] \ {"price_match"} |-> survey[i][c]]])

\* Series.mean() * 100 of a boolean column
BoolMeanPct(flags) ==
    IF Len(flags) = 0
    THEN NaN
    ELSE [num |-> 100 * Cardinality({i \in 1..Len(flags) : flags[i]}), den |-> Len(flags)]

\* MeanPct, mutated: the contributions are summed, not averaged
SumPct(contributions) ==
    IF contributions = <<>>
    THEN Zero
    ELSE [num |-> 100 * SumSeq(contributions), den |-> 6]

\* np.mean(contributions) * 100 if contributions else 0; a contribution k/min(3, len(recs))
\* is held as the integer 6*k/min(3, len(recs))
MeanPct(contributions) ==
    IF contributions = <<>>
    THEN Zero
    ELSE [num |-> 100 * SumSeq(contributions), den |-> 6 * Len(contributions)]

\* keyword in r['title'].lower(), where keyword = user['favorite_keyword'].lower()
KeywordMatch(user, r) == Contains(Lower(user.favorite_keyword), Lower(r.title))

\* user['expected_price_low'] <= r['price'] <= user['expected_price_high']
PriceMatch(user, r) ==
    /\ user.expected_price_low <= r.price
    /\ r.price <= user.expected_price_high

\* the match the metrics of one kind ("keyword" or "price") count
Match(kind, user, r) == IF kind = "keyword" THEN KeywordMatch(user, r) ELSE PriceMatch(user, r)

\* sum([match(r) for r in recs]) / min(3, len(recs)), times 6
Precision3(kind, user, recs) ==
    (6 \div Min(EvalTopN, Len(recs))) *
    Cardinality({ k \in 1..Len(recs) : Match(kind, user, recs[k]) })

\* int(match(recs.iloc[0])), times 6
Precision1(kind, user, recs) == IF Match(kind, user, recs[1]) THEN 6 ELSE 0

\* head, mutated: one row more than asked for
head_plus_one(frame, n) == SubSeq(frame, 1, Min(n + 1, Len(frame)))

\* df_survey.head(50)
head(frame, n) == SubSeq(frame, 1, Min(n, Len(frame)))

\* the lists that the loop of lines 209-233 builds over the sampled rows: recs[i] is
\* what get_recommendations returned for the i-th row; a row without recommendations
\* is skipped, every other appends one contribution to each list
precision_lists(sampled, recs) ==
    LET kept == SelectSeq([i \in 1..Len(sampled) |-> i], LAMBDA i : Len(recs[i]) # 0)
    IN  [precision_1_keyword |->
            Rows([j \in 1..Len(kept) |-> Precision1("keyword", sampled[kept[j]], recs[kept[j]])]),
         precision_3_keyword |->
            Rows([j \in 1..Len(kept) |-> Precision3("keyword", sampled[kept[j]], recs[kept[j]])]),
         precision_1_price |->
            Rows([j \in 1..Len(kept) |-> Precision1("price", sampled[kept[j]], recs[kept[j]])]),
         precision_3_price |->
            Rows([j \in 1..Len(kept) |-> Precision3("price", sampled[kept[j]], recs[kept[j]])])]

\* calculate_metrics(df_survey, df_products): the report it returns
calculate_metrics(survey, products) ==
    LET marked  == survey_after_calculate_metrics(survey, products)
        sampled == head(marked, SampleSize)
        recs    == Rows([i \in 1..Len(sampled) |->
                            get_recommendations(sampled[i], products, EvalTopN)])
        lists   == precision_lists(sampled, recs)
    IN  [category_coverage |->
            BoolMeanPct([i \in 1..Len(survey) |-> survey[i].preferred_category = "electronics"]),
         price_accuracy |->
            BoolMeanPct([i \in 1..Len(marked) |-> marked[i].price_match]),
         precision_1_keyword |-> MeanPct(lists.precision_1_keyword),
         precision_3_keyword |-> MeanPct(lists.precision_3_keyword),
         precision_1_price   |-> MeanPct(lists.precision_1_price),
         precision_3_price   |-> MeanPct(lists.precision_3_price)]

\* one call of calculate_metrics on the caller's frames; the reports of the two most
\* recent calls are remembered
CalculateMetricsCall ==
    /\ metricsCalls' =
          (IF metricsCalls = <<>> THEN <<>> ELSE <<metricsCalls[Len(metricsCalls)]>>)
          \o << calculate_metrics(df_survey, df_products) >>
    /\ df_survey' = survey_after_calculate_metrics(df_survey, df_products)
    /\ UNCHANGED <<df_products, survey_in, products_in, scoreCalls, recCall>>

-----------------------------------------------------------------------------
(* The program: the frames are loaded, then the dashboard calls calculate_metrics *)
(* and the recommendations page calls get_recommendations for a chosen customer  *)

ProductCycle == <<PhoneX, LaptopY, PhoneZ, Charger, Tablet, Speaker>>

\* the catalogs of the program's specification: runs of ProductCycle, taken cyclically
EvalCatalogs ==
    { Frame([i \in 1..k |-> ProductCycle[((start + i - 2) % Len(ProductCycle)) + 1]]) :
        start \in 1..Len(ProductCycle), k \in 0..MaxCatalog }

\* the cohorts: a freely chosen part, alone or after SampleSize - 1 copies of cPhone
Cohorts ==
    { [i \in 1..pad |-> cPhone] \o tail :
        pad \in {0, SampleSize - 1}, tail \in SeqsUpTo(Customers, MaxCohort) }

Init ==
    /\ df_survey \in Cohorts
    /\ survey_in = df_survey
    /\ df_products \in EvalCatalogs
    /\ products_in = df_products
    /\ scoreCalls = <<>>
    /\ recCall = NoCall
    /\ metricsCalls = <<>>

\* the page, which the script reaches after calculate_metrics has run (line 256):
\* user_data is a row of df_survey
PageRecommendations ==
    /\ metricsCalls # <<>>
    /\ \E user_data \in { df_survey[i] : i \in 1..Len(df_survey) } :
           GetRecommendationsCall(user_data, PageTopN)

Next ==
    \/ CalculateMetricsCall
    \/ PageRecommendations

Spec == Init /\ [][Next]_vars

-----------------------------------------------------------------------------
(* Properties of the Scorer (SpecScorer) *)

\* the two remembered calls differ in nothing but the field `field`
SameBut(a, b, field) ==
    \A f \in {"price", "rating", "rating_count", "low", "high"} \ {field} : a[f] = b[f]

\* twice the distance of the price from mid_price = (low + high) / 2
Dist2(call) == Abs(2 * call.price - (call.low + call.high))

\* C9: for prices p1 < p2 under the same rating, rating_count and budget, if p1 is
\* strictly closer to mid = (low + high)/2 than p2, then the score at p1 is at least
\* the score at p2.
MonotonicPricePenalty ==
    Len(scoreCalls) = 2 =>
        LET a == scoreCalls[1]
            b == scoreCalls[2]
        IN  (SameBut(a, b, "price") /\ a.price < b.price /\ Dist2(a) < Dist2(b))
                => ScoreLe(b.score, a.score)

\* two calls that C9 speaks of, with a positive mid price and a strictly lower second score
MonotonicPricePenaltyWitness ==
    /\ Len(scoreCalls) = 2
    /\ SameBut(scoreCalls[1], scoreCalls[2], "price")
    /\ scoreCalls[1].price < scoreCalls[2].price
    /\ Dist2(scoreCalls[1]) < Dist2(scoreCalls[2])
    /\ scoreCalls[1].low + scoreCalls[1].high > 0
    /\ ScoreLt(scoreCalls[2].score, scoreCalls[1].score)

\* C10: for review counts c1 < c2 under the same price, budget and positive rating,
\* the score at c1 is strictly below the score at c2.
PopularityMonotonic ==
    Len(scoreCalls) = 2 =>
        LET a == scoreCalls[1]
            b == scoreCalls[2]
        IN  (SameBut(a, b, "rating_count") /\ a.rating_count < b.rating_count /\ a.rating > 0)
                => ScoreLt(a.score, b.score)

\* two calls that C10 speaks of
PopularityMonotonicWitness ==
    /\ Len(scoreCalls) = 2
    /\ SameBut(scoreCalls[1], scoreCalls[2], "rating_count")
    /\ scoreCalls[1].rating_count < scoreCalls[2].rating_count
    /\ scoreCalls[1].rating > 0
    /\ scoreCalls[1].rating_count > 0
    /\ ScoreLt(scoreCalls[1].score, scoreCalls[2].score)

-----------------------------------------------------------------------------
(* Properties of the Recommender (SpecRecommender) *)

\* a returned row without its score column
Unscored(r) == [f \in DOMAIN r \ {"score"} |-> r[f]]

\* the score the customer's own (unbuffered) budget gives a product row
ScoreOf(user_row, row) ==
    calculate_score(row.price, row.rating, row.rating_count,
                    user_row.expected_price_low, user_row.expected_price_high)

\* recs is the first n rows of pool in descending score, equal scores in pool order
StableTop(recs, n, pool, user_row) ==
    /\ Len(recs) = Min(Max(n, 0), Len(pool))
    /\ \A i \in 1..Len(recs) :
          \E j \in 1..Len(pool) : recs[i] = pool[j] @@ [score |-> ScoreOf(user_row, pool[j])]
    /\ \A i, k \in 1..Len(recs) :
          i < k => /\ ScoreLe(recs[k].score, recs[i].score)
                   /\ recs[k].score = recs[i].score => recs[i].index < recs[k].index
    /\ \A j \in 1..Len(pool) :
          (\A i \in 1..Len(recs) : recs[i].index # pool[j].index) =>
              \A i \in 1..Len(recs) :
                  /\ ScoreLe(ScoreOf(user_row, pool[j]), recs[i].score)
                  /\ ScoreOf(user_row, pool[j]) = recs[i].score => recs[i].index < pool[j].index

\* every returned row is a row of the catalog handed over, no row twice
FromCatalog(recs) ==
    /\ \A i \in 1..Len(recs) :
          \E j \in 1..Len(products_in) : products_in[j] = Unscored(recs[i])
    /\ \A i, k \in 1..Len(recs) : i # k => recs[i].index # recs[k].index

\* C1 (as stated): get_recommendations returns at most top_n rows, each a row of the
\* catalog, none twice.
AtMostTopN ==
    recCall.called =>
        /\ Len(recCall.recs) <= recCall.top_n
        /\ FromCatalog(recCall.recs)

\* C1 (amended): get_recommendations returns at most max(top_n, 0) rows, each a row
\* of the catalog, none twice.
AtMostTopNOrNone ==
    recCall.called =>
        /\ Len(recCall.recs) <= Max(recCall.top_n, 0)
        /\ FromCatalog(recCall.recs)

\* a call that cut its pool down to top_n >= 1 rows
AtMostTopNWitness ==
    /\ recCall.called
    /\ recCall.top_n >= 1
    /\ Len(recCall.recs) = recCall.top_n
    /\ Len(candidate_pool(recCall.user_row, products_in)) > recCall.top_n

\* no product of the catalog is priced inside the customer's relaxed window
NoneInWindow(user_row, df) == \A j \in 1..Len(df) : ~InWindow(user_row, df[j])

\* C2: with a non-empty catalog and top_n >= 1, when no product lies in the relaxed
\* window the result is non-empty and is the top min(top_n, catalog size) of the whole
\* catalog by score; with top_n >= 1 an empty result means an empty catalog.
FallbackWholeCatalog ==
    (recCall.called /\ recCall.top_n >= 1) =>
        /\ (Len(products_in) > 0 /\ NoneInWindow(recCall.user_row, products_in)) =>
              /\ recCall.recs # <<>>
              /\ StableTop(recCall.recs, Min(recCall.top_n, Len(products_in)),
                           products_in, recCall.user_row)
        /\ recCall.recs = <<>> => products_in = <<>>

\* a call that fell back to the whole catalog and returned several of its rows
FallbackWholeCatalogWitness ==
    /\ recCall.called
    /\ recCall.top_n >= 2
    /\ Len(products_in) >= 2
    /\ NoneInWindow(recCall.user_row, products_in)
    /\ Len(recCall.recs) >= 2

\* the call of the end-to-end example: catalog [Phone X, Laptop Y], budget 900..1100,
\* keyword "phone", top_n = 2
ExampleCall ==
    /\ recCall.called
    /\ products_in = Frame(<<PhoneX, LaptopY>>)
    /\ recCall.user_row = cPhone
    /\ recCall.top_n = 2

Titles(recs) == [i \in 1..Len(recs) |-> recs[i].title]

\* C3 (as stated): the example call returns both items, Phone X first and Laptop Y second.
ExampleReturnsBoth ==
    ExampleCall => Titles(recCall.recs) = <<PhoneX.title, LaptopY.title>>

\* C3 (amended): the example call returns Phone X alone: Laptop Y (50000) lies outside
\* the relaxed window [720, 1320], Phone X lies inside, so the fallback is not taken.
ExampleReturnsPhoneOnly ==
    ExampleCall =>
        /\ Titles(recCall.recs) = <<PhoneX.title>>
        /\ ~InWindow(cPhone, LaptopY)
        /\ InWindow(cPhone, PhoneX)

\* the example call has been made
ExampleReached == ExampleCall /\ Len(recCall.recs) = 1

\* C4: get_recommendations returns the empty frame whenever the catalog is empty and
\* whenever top_n <= 0 (negative top_n included).
EmptyOutcomes ==
    (recCall.called /\ (Len(products_in) = 0 \/ recCall.top_n <= 0)) => recCall.recs = <<>>

\* a call with a negative top_n on a non-empty catalog
EmptyOutcomesWitness ==
    /\ recCall.called
    /\ recCall.top_n < 0
    /\ Len(products_in) > 1
    /\ recCall.recs = <<>>

\* C5: the result is the first min(top_n, pool size) rows of the candidate pool in
\* descending score, scores taken against the customer's unbuffered budget, rows of
\* equal score in catalog order; no pool row left out outranks a returned one.
RankingStable ==
    (recCall.called /\ Len(products_in) > 0) =>
        LET pool == candidate_pool(recCall.user_row, products_in)
        IN  StableTop(recCall.recs, Min(recCall.top_n, Len(pool)), pool, recCall.user_row)

\* a call that returned two rows of equal score and left a pool row out
RankingStableWitness ==
    /\ recCall.called
    /\ Len(recCall.recs) >= 2
    /\ recCall.recs[1].score = recCall.recs[2].score
    /\ Len(candidate_pool(recCall.user_row, products_in)) > Len(recCall.recs)

-----------------------------------------------------------------------------
(* Properties of the program (Spec) *)

PrecisionMetrics ==
    {"precision_1_keyword", "precision_3_keyword", "precision_1_price", "precision_3_price"}

\* C6: each of the four precision metrics of a report lies in [0, 100]; with an empty
\* cohort, or when no customer contributed (an empty catalog), each of them is 0.
PrecisionInRange ==
    \A n \in 1..Len(metricsCalls) :
        \A m \in PrecisionMetrics :
            LET v == metricsCalls[n][m]
            IN  /\ v # NaN
                /\ v.den > 0
                /\ 0 <= v.num
                /\ v.num <= 100 * v.den
                /\ (survey_in = <<>> \/ products_in = <<>>) => v = Zero

\* a report over several customers whose precision@3 (price) is strictly between 0 and 100
PrecisionInRangeWitness ==
    /\ Len(survey_in) >= 2
    /\ Len(metricsCalls) >= 1
    /\ LET v == metricsCalls[1].precision_3_price
       IN  0 < v.num /\ v.num < 100 * v.den

\* C7 (as stated): after any call the cohort and the catalog handed over are
\* unchanged, no field modified and no column added.
InputsUnchanged ==
    /\ df_survey = survey_in
    /\ df_products = products_in

\* C7 (amended): get_recommendations changes neither frame; calculate_metrics leaves
\* the catalog and every field of every customer as they were, and adds exactly one
\* column, price_match, to the caller's cohort frame.
InputsUnchangedButPriceMatch ==
    /\ df_products = products_in
    /\ Len(df_survey) = Len(survey_in)
    /\ \A i \in 1..Len(survey_in) :
          /\ DOMAIN df_survey[i] =
                DOMAIN survey_in[i] \cup (IF metricsCalls = <<>> THEN {} ELSE {"price_match"})
          /\ \A c \in DOMAIN survey_in[i] : df_survey[i][c] = survey_in[i][c]

\* both operations have been called on a non-empty cohort and catalog
InputsUnchangedWitness ==
    /\ recCall.called
    /\ Len(recCall.recs) >= 1
    /\ metricsCalls # <<>>
    /\ df_survey # survey_in

\* C8: a call of get_recommendations with the arguments of the call before it returns
\* the same rows in the same order with the same scores, and two successive calls of
\* calculate_metrics on the same frames return the same report.
Deterministic ==
    /\ (recCall.called /\ recCall.again) => recCall.recs = recCall.before
    /\ Len(metricsCalls) = 2 => metricsCalls[1] = metricsCalls[2]

\* both operations have been called twice over, with non-trivial results
DeterministicWitness ==
    /\ recCall.called
    /\ recCall.again
    /\ Len(recCall.recs) >= 2
    /\ Len(metricsCalls) = 2
    /\ metricsCalls[2].precision_1_keyword # Zero

\* the customers of the cohort handed over for whom some catalog product is priced
\* within [expected_price_low, expected_price_high]
MatchedCustomers ==
    { i \in 1..Len(survey_in) :
        \E j \in 1..Len(products_in) :
            /\ survey_in[i].expected_price_low <= products_in[j].price
            /\ products_in[j].price <= survey_in[i].expected_price_high }

\* the customers for whom some product lies in the 20% margin around the budget and
\* none lies in the budget itself
MarginOnlyCustomers ==
    { i \in 1..Len(survey_in) :
        /\ i \notin MatchedCustomers
        /\ \E j \in 1..Len(products_in) :
              /\ 10 * products_in[j].price >= 8 * survey_in[i].expected_price_low
              /\ 10 * products_in[j].price <= 12 * survey_in[i].expected_price_high }

\* C11: price_accuracy is 100 times the fraction of all customers of the cohort (not
\* of the sampled prefix) for whom some product is priced within the unbuffered budget
\* [expected_price_low, expected_price_high]; a customer reached only through the 20%
\* margin is not counted.
PriceAccuracyUnbuffered ==
    (metricsCalls # <<>> /\ survey_in # <<>>) =>
        LET v == metricsCalls[Len(metricsCalls)].price_accuracy
        IN  /\ v # NaN
            /\ v.den > 0
            /\ v.num * Len(survey_in) = 100 * Cardinality(MatchedCustomers) * v.den

\* a report over a cohort longer than the sample, with a matched customer after the
\* sampled prefix and a customer reached only through the margin
PriceAccuracyUnbufferedWitness ==
    /\ metricsCalls # <<>>
    /\ Len(survey_in) > SampleSize
    /\ \E i \in MatchedCustomers : i > SampleSize
    /\ MarginOnlyCustomers # {}
    /\ metricsCalls[1].price_accuracy.num > 0

\* the four precision metrics: the field of the report, what is matched, and whether
\* only the top-ranked candidate counts
PrecisionKinds ==
    { [field |-> "precision_1_keyword", kind |-> "keyword", top_only |-> TRUE],
      [field |-> "precision_3_keyword", kind |-> "keyword", top_only |-> FALSE],
      [field |-> "precision_1_price",   kind |-> "price",   top_only |-> TRUE],
      [field |-> "precision_3_price",   kind |-> "price",   top_only |-> FALSE] }

\* six times what one customer with the candidates cands contributes to the metric m:
\* the 0/1 match of the top-ranked candidate, or matches / min(3, number returned)
SixfoldContribution(m, user, cands) ==
    IF m.top_only
    THEN (IF Match(m.kind, user, cands[1]) THEN 6 ELSE 0)
    ELSE (6 * Cardinality({ k \in 1..Len(cands) : Match(m.kind, user, cands[k]) }))
            \div Min(3, Len(cands))

\* C12: only the first 50 customers of the cohort are evaluated, each with top_n = 3;
\* a customer without candidates adds nothing to numerator or denominator; every other
\* customer contributes matches / min(3, returned) to a precision@3 metric and the 0/1
\* match of the top-ranked candidate to a precision@1 metric; each metric is 100 times
\* the mean of its contributions, so customers after the prefix never change it.
PrecisionOverPrefix ==
    metricsCalls # <<>> =>
        LET report  == metricsCalls[Len(metricsCalls)]
            n       == Min(50, Len(survey_in))
            \* each customer of the prefix with the candidates returned for them
            cands   == { <<user, get_recommendations(user, products_in, 3)>> :
                            user \in { survey_in[i] : i \in 1..n } }
            counted == { i \in 1..n : \E p \in cands : p[1] = survey_in[i] /\ p[2] # <<>> }
        IN  \A m \in PrecisionKinds :
                LET value == report[m.field]
                    \* each counted customer with six times their contribution
                    parts == { <<p[1], SixfoldContribution(m, p[1], p[2])>> :
                                  p \in { q \in cands : q[2] # <<>> } }
                    total == SumSeq([c \in 1..6 |->
                                 c * Cardinality({ i \in counted : <<survey_in[i], c>> \in parts })])
                IN  IF counted = {}
                    THEN value = Zero
                    ELSE /\ value.den > 0
                         /\ value.num * 6 * Cardinality(counted) = 100 * total * value.den

\* a report over a cohort longer than the sample, where a sampled customer contributes
\* a proper fraction and a customer after the prefix, had it been counted, would have
\* changed a metric
PrecisionOverPrefixWitness ==
    /\ metricsCalls # <<>>
    /\ Len(survey_in) > SampleSize
    /\ products_in # <<>>
    /\ LET cands == Rows([i \in 1..Len(survey_in) |->
                             get_recommendations(survey_in[i], products_in, 3)])
           last  == Len(survey_in)
       IN  \E m \in PrecisionKinds :
              /\ \E i \in 1..SampleSize :
                    SixfoldContribution(m, survey_in[i], cands[i]) \in {2, 3, 4}
              /\ LET value == metricsCalls[Len(metricsCalls)][m.field]
                 IN  value.num * 6 # 100 * value.den *
                                       SixfoldContribution(m, survey_in[last], cands[last])

-----------------------------------------------------------------------------
(* Further properties of the Recommender (SpecRecommender) *)

\* the popularity term rating * ln(1 + rating_count) of a row, as a score
PopularityOf(row) == [num |-> Popularity(row.rating, row.rating_count), den |-> 10000]

\* the budget of the last call has a midpoint that is not greater than 0
DegenerateBudget ==
    /\ recCall.called
    /\ recCall.user_row.expected_price_low + recCall.user_row.expected_price_high <= 0

\* C13: when the midpoint of the budget is not greater than 0, the score of a product
\* is rating * ln(1 + rating_count) whatever its price, nothing is divided by zero,
\* and get_recommendations ranks the pool by that popularity term alone.
DegenerateBudgetByPopularity ==
    DegenerateBudget =>
        LET recs == recCall.recs
            pool == candidate_pool(recCall.user_row, products_in)
        IN  /\ Len(recs) = Min(Max(recCall.top_n, 0), Len(pool))
            /\ \A i \in 1..Len(recs) :
                  /\ recs[i].score.den > 0
                  /\ recs[i].score = PopularityOf(recs[i])
                  /\ \E j \in 1..Len(pool) : pool[j] = Unscored(recs[i])
            /\ \A i, k \in 1..Len(recs) :
                  i < k => Popularity(recs[i].rating, recs[i].rating_count)
                              >= Popularity(recs[k].rating, recs[k].rating_count)
            /\ \A j \in 1..Len(pool) :
                  (\A i \in 1..Len(recs) : recs[i].index # pool[j].index) =>
                      \A i \in 1..Len(recs) :
                          Popularity(pool[j].rating, pool[j].rating_count)
                              <= Popularity(recs[i].rating, recs[i].rating_count)

\* a call with a degenerate budget that returned rows of different prices and different
\* popularity and left a row of the pool out
DegenerateBudgetByPopularityWitness ==
    /\ DegenerateBudget
    /\ Len(recCall.recs) >= 2
    /\ Len(recCall.recs) < Len(products_in)
    /\ recCall.recs[1].price # recCall.recs[2].price
    /\ recCall.recs[1].score # recCall.recs[2].score

\* the price of row lies in [budget_low * 0.8, budget_high * 1.2]
InRelaxedWindow(user_row, row) ==
    /\ 10 * row.price >= 8 * user_row.expected_price_low
    /\ 10 * row.price <= 12 * user_row.expected_price_high

\* the rows of the catalog handed over that lie in the relaxed window of the last call
RelaxedRows == { j \in 1..Len(products_in) : InRelaxedWindow(recCall.user_row, products_in[j]) }

\* the rows of the catalog handed over that are priced within the budget itself
BudgetRows ==
    { j \in 1..Len(products_in) :
        /\ recCall.user_row.expected_price_low <= products_in[j].price
        /\ products_in[j].price <= recCall.user_row.expected_price_high }

\* C14: whenever some product of the catalog is priced within the relaxed window
\* [budget_low * 0.8, budget_high * 1.2], every returned candidate is priced within it,
\* even if a product outside would score higher; for a customer with budget_low >= 0
\* whom price_accuracy counts as matched, the fallback to the whole catalog is not taken.
WindowKept ==
    recCall.called =>
        /\ RelaxedRows # {} =>
              /\ \A i \in 1..Len(recCall.recs) : InRelaxedWindow(recCall.user_row, recCall.recs[i])
              /\ Len(recCall.recs) = Min(Max(recCall.top_n, 0), Cardinality(RelaxedRows))
        /\ (recCall.user_row.expected_price_low >= 0 /\ BudgetRows # {}) => RelaxedRows # {}

\* a call for a customer with budget_low >= 0 and a product within the budget, where a
\* product outside the relaxed window scores higher than a returned candidate
WindowKeptWitness ==
    /\ recCall.called
    /\ recCall.user_row.expected_price_low >= 0
    /\ BudgetRows # {}
    /\ \E i \in 1..Len(recCall.recs), j \in 1..Len(products_in) :
          /\ j \notin RelaxedRows
          /\ ScoreLt(recCall.recs[i].score, ScoreOf(recCall.user_row, products_in[j]))

=============================================================================
